---- MODULE Spec2Model ----
(***************************************************************************)
(* dview: the command-line inspector of src/src/dview/dview.py.            *)
(*                                                                         *)
(* main() walks the positional arguments in order.  For every argument it  *)
(* checks that the path exists, lowercases the suffix of the path, and     *)
(* calls one of inspect_npy / inspect_npz / inspect_netcdf / inspect_hdf5  *)
(* / inspect_mat.  Every inspect_* function prints as it goes and turns    *)
(* any exception into a line on stderr followed by sys.exit(1).            *)
(*                                                                         *)
(* Strings that the code takes apart (paths, variable names) are tuples    *)
(* of one-character strings.  The decoding libraries are the environment:  *)
(* what a file holds, and whether and where decoding raises, is drawn      *)
(* when the file is opened.                                                *)
(***************************************************************************)
EXTENDS Integers, Sequences, FiniteSets, TLC

(* ----------------------------------------------------------------------- *)
(* Bounds                                                                  *)
(* ----------------------------------------------------------------------- *)
MaxFiles == 2
MaxEnts == 2

(* ----------------------------------------------------------------------- *)
(* Strings                                                                 *)
(* ----------------------------------------------------------------------- *)
UpperToLower ==
    [c \in {"N", "P", "Y", "Z", "C", "H", "M", "A", "T", "E", "D", "F", "X"} |->
        CASE c = "N" -> "n" [] c = "P" -> "p" [] c = "Y" -> "y" [] c = "Z" -> "z"
          [] c = "C" -> "c" [] c = "H" -> "h" [] c = "M" -> "m" [] c = "A" -> "a"
          [] c = "T" -> "t" [] c = "E" -> "e" [] c = "D" -> "d" [] c = "F" -> "f"
          [] c = "X" -> "x"]

LowerChar(c) == IF c \in DOMAIN UpperToLower THEN UpperToLower[c] ELSE c

\* str.lower()
Lower(s) == [i \in 1..Len(s) |-> LowerChar(s[i])]

\* str.rfind(ch), 1-based; 0 when ch does not occur
RFind(s, ch) ==
    LET hits == {i \in 1..Len(s) : s[i] = ch}
    IN  IF hits = {} THEN 0 ELSE CHOOSE i \in hits : \A j \in hits : j <= i

\* pathlib parses the path into parts: trailing separators and trailing "."
\* components are dropped
RECURSIVE StripSep(_)
StripSep(s) ==
    IF Len(s) > 0 /\ s[Len(s)] = "/" THEN StripSep(SubSeq(s, 1, Len(s) - 1))
    ELSE IF Len(s) > 1 /\ s[Len(s)] = "." /\ s[Len(s) - 1] = "/" THEN StripSep(SubSeq(s, 1, Len(s) - 1))
    ELSE s

\* PurePath.name: the final path component
PathName(p) ==
    LET q == StripSep(p)
    IN  SubSeq(q, RFind(q, "/") + 1, Len(q))

\* PurePath.suffix: the part of the name from its last dot on, provided the
\* dot is neither the first nor the last character of the name
PathSuffix(p) ==
    LET name == PathName(p)
        i == RFind(name, ".")
    IN  IF 1 < i /\ i < Len(name) THEN SubSeq(name, i, Len(name)) ELSE <<>>

\* the if/elif chain of main() over suffix = path.suffix.lower()
\* the chain with '.netcdf' left out of the NetCDF branch
DispatchBroken(suffix) ==
    IF suffix = <<".", "n", "p", "y">> THEN "npy"
    ELSE IF suffix = <<".", "n", "p", "z">> THEN "npz"
    ELSE IF suffix \in {<<".", "n", "c">>} THEN "netcdf"
    ELSE IF suffix \in {<<".", "h", "5">>, <<".", "h", "d", "f", "5">>} THEN "hdf5"
    ELSE IF suffix = <<".", "m", "a", "t">> THEN "mat"
    ELSE "unsupported"

Dispatch(suffix) ==
    IF suffix = <<".", "n", "p", "y">> THEN "npy"
    ELSE IF suffix = <<".", "n", "p", "z">> THEN "npz"
    ELSE IF suffix \in {<<".", "n", "c">>, <<".", "n", "e", "t", "c", "d", "f">>} THEN "netcdf"
    ELSE IF suffix \in {<<".", "h", "5">>, <<".", "h", "d", "f", "5">>} THEN "hdf5"
    ELSE IF suffix = <<".", "m", "a", "t">> THEN "mat"
    ELSE "unsupported"

Resolve(p) == Dispatch(Lower(PathSuffix(p)))

(* ----------------------------------------------------------------------- *)
(* Inputs                                                                  *)
(* ----------------------------------------------------------------------- *)
\* command-line paths, one for every branch of the dispatch
ArgPaths ==
    { <<"a", ".", "n", "p", "y">>,
      <<"B", ".", "N", "P", "Z">>,
      <<"d", "/", "c", ".", "n", "c">>,
      <<"e", ".", "h", "5">>,
      <<"f", ".", "m", "a", "t">>,
      <<"g", ".", "t", "x", "t">> }

\* member names of an archive / variable names of a dataset
FlatNames == { <<"b">>, <<"a">> }

\* keys of the dict returned by loadmat
MatKeys == { <<"_", "_", "h">>, <<"_", "a">>, <<"b">> }

\* the nodes of an HDF5 file in the order visititems reaches them;
\* ds tells a Dataset from a Group
H5Tree ==
    << [n |-> <<"d">>, ds |-> TRUE],
       [n |-> <<"g">>, ds |-> FALSE],
       [n |-> <<"g", "/", "e">>, ds |-> TRUE] >>

Ent(n) == [n |-> n, ds |-> TRUE]

\* sequences without repetition over S, of length at most MaxEnts
DistinctSeqs(S) ==
    UNION { { q \in [1..m -> S] : \A i, j \in 1..m : i # j => q[i] # q[j] } : m \in 0..MaxEnts }

RECURSIVE Pick(_, _)
\* the subsequence of q at the positions in I
Pick(q, I) ==
    IF I = {} THEN <<>>
    ELSE LET m == CHOOSE i \in I : \A j \in I : j <= i
         IN  Append(Pick(q, I \ {m}), q[m])

EntSeqs(S) == { [i \in 1..Len(q) |-> Ent(q[i])] : q \in DistinctSeqs(S) }

H5Seqs == { Pick(H5Tree, I) : I \in { J \in SUBSET (1..Len(H5Tree)) : Cardinality(J) <= MaxEnts } }

\* What a decoder delivers for one file.  ents: the entities in the decoder's
\* iteration order; gattr: NetCDF global attributes present; fails/failAt: the
\* access to entity failAt raises.
Content(ents, gattr, fails, failAt) ==
    [ents |-> ents, gattr |-> gattr, fails |-> fails, failAt |-> failAt]

NoContent == Content(<<>>, FALSE, FALSE, 0)

\* ents, either sound or raising at one of the positions in at
WithFailures(ents, gattr, at) ==
    { Content(ents, gattr, FALSE, 0) } \cup { Content(ents, gattr, TRUE, j) : j \in at }

(* ----------------------------------------------------------------------- *)
(* State                                                                   *)
(* ----------------------------------------------------------------------- *)
VARIABLES
    files,      \* args.files
    show_all,   \* args.all
    idx,        \* position of the for loop of main() in files
    pc,         \* the statement the process is at
    data,       \* what the decoder returned for the file being traversed
    items,      \* the sequence the traversal's for loop iterates
    k,          \* position of that loop in items
    handles,    \* indices of the files whose decoder handle is open
    trace,      \* every effect so far, in order: checks, calls, stdout and stderr lines
    exitCode,   \* the process's exit status once pc is "done" or "exited"
    rpath,      \* resolution on its own: the path
    rtag        \* resolution on its own: the tag found for rpath

vars == <<files, show_all, idx, pc, data, items, k, handles, trace, exitCode, rpath, rtag>>

Ev(f, s, kind, n) == [f |-> f, s |-> s, k |-> kind, n |-> n]

Out(kind, n) == Ev(idx, "out", kind, n)
Err(kind) == Ev(idx, "err", kind, <<>>)

Init ==
    /\ files \in UNION { [1..m -> ArgPaths] : m \in 1..MaxFiles }
    /\ show_all \in BOOLEAN
    /\ idx = 1
    /\ pc = "loop"
    /\ data = NoContent
    /\ items = <<>>
    /\ k = 0
    /\ handles = {}
    /\ trace = <<>>
    /\ exitCode = 0
    /\ rpath = <<>>
    /\ rtag = "idle"

(* ----------------------------------------------------------------------- *)
(* main()                                                                  *)
(* ----------------------------------------------------------------------- *)
\* the existence test without its continue
main_exists_broken ==
    /\ pc = "loop"
    /\ idx <= Len(files)
    /\ \E ex \in BOOLEAN :
        IF ex
        THEN trace' = Append(trace, Ev(idx, "fs", "exists", <<>>))
        ELSE trace' = trace \o << Ev(idx, "fs", "exists", <<>>), Err("missing") >>
    /\ pc' = "dispatch"
    /\ UNCHANGED <<files, show_all, idx, data, items, k, handles, exitCode, rpath, rtag>>

\* for file_path in args.files: if not path.exists(): print(...); continue
main_exists ==
    /\ pc = "loop"
    /\ idx <= Len(files)
    /\ \E ex \in BOOLEAN :
        IF ex
        THEN /\ trace' = Append(trace, Ev(idx, "fs", "exists", <<>>))
             /\ pc' = "dispatch"
             /\ idx' = idx
        ELSE /\ trace' = trace \o << Ev(idx, "fs", "exists", <<>>), Err("missing") >>
             /\ pc' = "loop"
             /\ idx' = idx + 1
    /\ UNCHANGED <<files, show_all, data, items, k, handles, exitCode, rpath, rtag>>

\* the else branch exiting instead of falling through to the next file
main_dispatch_broken ==
    /\ pc = "dispatch"
    /\ LET tag == Resolve(files[idx])
       IN  IF tag = "unsupported"
           THEN /\ trace' = trace \o << Ev(idx, "call", tag, <<>>), Err("unsupported") >>
                /\ pc' = "exited"
                /\ exitCode' = 1
           ELSE /\ trace' = Append(trace, Ev(idx, "call", tag, <<>>))
                /\ pc' = tag
                /\ exitCode' = exitCode
    /\ UNCHANGED <<files, show_all, idx, data, items, k, handles, rpath, rtag>>

\* suffix = path.suffix.lower() and the if/elif chain on it
main_dispatch ==
    /\ pc = "dispatch"
    /\ LET tag == Resolve(files[idx])
       IN  IF tag = "unsupported"
           THEN /\ trace' = trace \o << Ev(idx, "call", tag, <<>>), Err("unsupported") >>
                /\ pc' = "loop"
                /\ idx' = idx + 1
           ELSE /\ trace' = Append(trace, Ev(idx, "call", tag, <<>>))
                /\ pc' = tag
                /\ idx' = idx
    /\ UNCHANGED <<files, show_all, data, items, k, handles, exitCode, rpath, rtag>>

\* the for loop is exhausted: main() returns and the interpreter exits with 0
main_return ==
    /\ pc = "loop"
    /\ idx > Len(files)
    /\ pc' = "done"
    /\ UNCHANGED <<files, show_all, idx, data, items, k, handles, trace, exitCode, rpath, rtag>>

\* a return that leaves the loop on the same file
BackToLoopBroken ==
    /\ pc' = "loop"
    /\ idx' = idx
    /\ data' = NoContent
    /\ items' = <<>>
    /\ k' = 0

\* an inspect_* function returns to the loop of main()
BackToLoop ==
    /\ pc' = "loop"
    /\ idx' = idx + 1
    /\ data' = NoContent
    /\ items' = <<>>
    /\ k' = 0

\* an except clause without sys.exit
ReportAndGoOn ==
    /\ trace' = Append(trace, Err("reading"))
    /\ pc' = "loop"
    /\ idx' = idx + 1
    /\ data' = NoContent
    /\ items' = <<>>
    /\ k' = 0
    /\ UNCHANGED <<files, show_all, handles, exitCode, rpath, rtag>>

\* an except clause exiting with status 0
ReportAndExitZero ==
    /\ trace' = Append(trace, Err("reading"))
    /\ exitCode' = 0
    /\ pc' = "exited"
    /\ UNCHANGED <<files, show_all, idx, data, items, k, handles, rpath, rtag>>

\* except Exception as e: print(..., file=sys.stderr); sys.exit(1)
ReportAndExit ==
    /\ trace' = Append(trace, Err("reading"))
    /\ exitCode' = 1
    /\ pc' = "exited"
    /\ UNCHANGED <<files, show_all, idx, data, items, k, handles, rpath, rtag>>

\* the handle of the file being traversed is opened / released
FdOpen == Ev(idx, "fd", "open", <<>>)
FdClose == Ev(idx, "fd", "close", <<>>)

\* leaving a with block, normally or by an exception, closes its handle
\* a handle opened without a with block
CloseHandleBroken == UNCHANGED handles

CloseHandle == handles' = handles \ {idx}

\* the data printed whatever show_all says
SectionBroken(n) == << Out("desc", n), Out("data", n) >>

\* the lines printed for one entity: its descriptor and, with show_all, its data
Section(n) ==
    IF show_all THEN << Out("desc", n), Out("data", n) >> ELSE << Out("desc", n) >>

(* ----------------------------------------------------------------------- *)
(* inspect_npy                                                             *)
(* ----------------------------------------------------------------------- *)
\* data = np.load(file_path).  np.load goes by the file's magic, not its name:
\* it raises, returns an ndarray (its own handle closed again), or returns an
\* NpzFile that keeps the handle open and has no dtype.
inspect_npy_load ==
    /\ pc = "npy"
    /\ \E r \in {"raise", "array", "archive"} :
        CASE r = "raise" ->
                /\ pc' = "npy_except"
                /\ UNCHANGED <<data, handles, trace>>
          [] r = "array" ->
                /\ pc' = "npy_print"
                /\ data' = Content(<< Ent(<<>>) >>, FALSE, FALSE, 0)
                /\ UNCHANGED <<handles, trace>>
          [] r = "archive" ->
                /\ pc' = "npy_print"
                /\ data' = Content(<< Ent(<<>>) >>, FALSE, TRUE, 1)
                /\ handles' = handles \cup {idx}
                /\ trace' = Append(trace, FdOpen)
    /\ UNCHANGED <<files, show_all, idx, items, k, exitCode, rpath, rtag>>

\* the prints of inspect_npy; data.dtype raises on an NpzFile
inspect_npy_print ==
    /\ pc = "npy_print"
    /\ IF data.fails
       THEN /\ trace' = Append(trace, Out("file", <<>>))
            /\ pc' = "npy_except"
            /\ UNCHANGED <<idx, data, items, k>>
       ELSE /\ trace' = trace \o << Out("file", <<>>), Out("desc", <<>>) >>
                              \o (IF show_all THEN << Out("title", <<>>), Out("data", <<>>) >> ELSE <<>>)
            /\ BackToLoop
    /\ UNCHANGED <<files, show_all, handles, exitCode, rpath, rtag>>

inspect_npy_except ==
    /\ pc = "npy_except"
    /\ ReportAndExit

(* ----------------------------------------------------------------------- *)
(* inspect_npz                                                             *)
(* ----------------------------------------------------------------------- *)
\* the archives np.load may deliver: data[name] may raise for one member
NpzContents ==
    UNION { WithFailures(e, FALSE, 1..Len(e)) : e \in EntSeqs(FlatNames) }

\* with np.load(file_path) as data: and the prints before the loop
inspect_npz_open ==
    /\ pc = "npz"
    /\ \/ /\ pc' = "npz_except"
          /\ UNCHANGED <<data, items, k, handles, trace>>
       \/ \E c \in NpzContents :
          /\ data' = c
          /\ items' = c.ents
          /\ k' = 1
          /\ handles' = handles \cup {idx}
          /\ trace' = trace \o << FdOpen, Out("file", <<>>), Out("title", <<>>) >>
          /\ pc' = "npz_iter"
    /\ UNCHANGED <<files, show_all, idx, exitCode, rpath, rtag>>

\* the member's line printed before the member is loaded
inspect_npz_member_broken ==
    /\ pc = "npz_iter"
    /\ k <= Len(items)
    /\ IF data.fails /\ data.failAt = k
       THEN /\ CloseHandle
            /\ trace' = trace \o << Out("desc", items[k].n), FdClose >>
            /\ pc' = "npz_except"
            /\ k' = k
       ELSE /\ trace' = trace \o Section(items[k].n)
            /\ k' = k + 1
            /\ UNCHANGED <<pc, handles>>
    /\ UNCHANGED <<files, show_all, idx, data, items, exitCode, rpath, rtag>>

\* for name in data.files: arr = data[name]; print ...
inspect_npz_member ==
    /\ pc = "npz_iter"
    /\ k <= Len(items)
    /\ IF data.fails /\ data.failAt = k
       THEN /\ CloseHandle
            /\ trace' = Append(trace, FdClose)
            /\ pc' = "npz_except"
            /\ k' = k
       ELSE /\ trace' = trace \o Section(items[k].n)
            /\ k' = k + 1
            /\ UNCHANGED <<pc, handles>>
    /\ UNCHANGED <<files, show_all, idx, data, items, exitCode, rpath, rtag>>

\* the loop is exhausted: the with block closes data, inspect_npz returns
inspect_npz_exit ==
    /\ pc = "npz_iter"
    /\ k > Len(items)
    /\ CloseHandle
    /\ trace' = Append(trace, FdClose)
    /\ BackToLoop
    /\ UNCHANGED <<files, show_all, exitCode, rpath, rtag>>

inspect_npz_except ==
    /\ pc = "npz_except"
    /\ ReportAndExit

(* ----------------------------------------------------------------------- *)
(* inspect_netcdf                                                          *)
(* ----------------------------------------------------------------------- *)
\* the datasets nc.Dataset may deliver: var[:] may raise for one variable,
\* and is evaluated with show_all only
NcContents ==
    UNION { WithFailures(e, g, IF show_all THEN 1..Len(e) ELSE {}) :
                e \in EntSeqs(FlatNames), g \in BOOLEAN }

\* with nc.Dataset(file_path, 'r') as data: the dimensions, the variables title
inspect_netcdf_open ==
    /\ pc = "netcdf"
    /\ \/ /\ pc' = "netcdf_except"
          /\ UNCHANGED <<data, items, k, handles, trace>>
       \/ \E c \in NcContents :
          /\ data' = c
          /\ items' = c.ents
          /\ k' = 1
          /\ handles' = handles \cup {idx}
          /\ trace' = trace \o << FdOpen, Out("file", <<>>), Out("dims", <<>>), Out("title", <<>>) >>
          /\ pc' = "netcdf_iter"
    /\ UNCHANGED <<files, show_all, idx, exitCode, rpath, rtag>>

\* for var_name, var in data.variables.items(): the descriptor, then var[:]
inspect_netcdf_variable ==
    /\ pc = "netcdf_iter"
    /\ k <= Len(items)
    /\ IF show_all /\ data.fails /\ data.failAt = k
       THEN /\ CloseHandle
            /\ trace' = trace \o << Out("desc", items[k].n), FdClose >>
            /\ pc' = "netcdf_except"
            /\ k' = k
       ELSE /\ trace' = trace \o Section(items[k].n)
            /\ k' = k + 1
            /\ UNCHANGED <<pc, handles>>
    /\ UNCHANGED <<files, show_all, idx, data, items, exitCode, rpath, rtag>>

\* the global attributes, the end of the with block, the return
inspect_netcdf_exit ==
    /\ pc = "netcdf_iter"
    /\ k > Len(items)
    /\ CloseHandle
    /\ trace' = trace \o (IF data.gattr THEN << Out("gattr", <<>>) >> ELSE <<>>) \o << FdClose >>
    /\ BackToLoop
    /\ UNCHANGED <<files, show_all, exitCode, rpath, rtag>>

inspect_netcdf_except ==
    /\ pc = "netcdf_except"
    /\ ReportAndExit

(* ----------------------------------------------------------------------- *)
(* inspect_hdf5                                                            *)
(* ----------------------------------------------------------------------- *)
\* the files h5py.File may deliver: obj[()] may raise for one dataset, and is
\* evaluated with show_all only
H5Contents ==
    UNION { WithFailures(e, FALSE, IF show_all THEN {j \in 1..Len(e) : e[j].ds} ELSE {}) :
                e \in H5Seqs }

\* with h5py.File(file_path, 'r') as f: and the prints before visititems
inspect_hdf5_open ==
    /\ pc = "hdf5"
    /\ \/ /\ pc' = "hdf5_except"
          /\ UNCHANGED <<data, items, k, handles, trace>>
       \/ \E c \in H5Contents :
          /\ data' = c
          /\ items' = c.ents
          /\ k' = 1
          /\ handles' = handles \cup {idx}
          /\ trace' = trace \o << FdOpen, Out("file", <<>>), Out("title", <<>>) >>
          /\ pc' = "hdf5_iter"
    /\ UNCHANGED <<files, show_all, idx, exitCode, rpath, rtag>>

\* print_attrs(name, obj), called by f.visititems for every node
print_attrs ==
    /\ pc = "hdf5_iter"
    /\ k <= Len(items)
    /\ LET node == items[k]
           head == IF node.ds THEN Out("desc", node.n) ELSE Out("group", node.n)
       IN  IF show_all /\ node.ds
           THEN IF data.fails /\ data.failAt = k
                THEN /\ CloseHandle
                     /\ trace' = trace \o << head, FdClose >>
                     /\ pc' = "hdf5_except"
                     /\ k' = k
                ELSE /\ trace' = trace \o << head, Out("data", node.n) >>
                     /\ k' = k + 1
                     /\ UNCHANGED <<pc, handles>>
           ELSE /\ trace' = Append(trace, head)
                /\ k' = k + 1
                /\ UNCHANGED <<pc, handles>>
    /\ UNCHANGED <<files, show_all, idx, data, items, exitCode, rpath, rtag>>

\* visititems is through: the with block closes f, inspect_hdf5 returns
inspect_hdf5_exit ==
    /\ pc = "hdf5_iter"
    /\ k > Len(items)
    /\ CloseHandle
    /\ trace' = Append(trace, FdClose)
    /\ BackToLoop
    /\ UNCHANGED <<files, show_all, exitCode, rpath, rtag>>

inspect_hdf5_except ==
    /\ pc = "hdf5_except"
    /\ ReportAndExit

(* ----------------------------------------------------------------------- *)
(* inspect_mat                                                             *)
(* ----------------------------------------------------------------------- *)
\* k.startswith('__')
StartsWithDunder(n) == Len(n) >= 2 /\ n[1] = "_" /\ n[2] = "_"

KeepKey(e) == ~StartsWithDunder(e.n)

\* a filter on a single leading underscore
StartsWithUnderscore(n) == Len(n) >= 1 /\ n[1] = "_"

KeepKeyBroken(e) == ~StartsWithUnderscore(e.n)

MatVariablesBroken(ents) == SelectSeq(ents, KeepKeyBroken)

\* variables = {k: v for k, v in data.items() if not k.startswith('__')}
MatVariables(ents) == SelectSeq(ents, KeepKey)

\* the dicts sio.loadmat may deliver; loadmat reads the whole file
MatContents == { Content(e, FALSE, FALSE, 0) : e \in EntSeqs(MatKeys) }

\* data = sio.loadmat(file_path), the prints before the loop, the filter
inspect_mat_load ==
    /\ pc = "mat"
    /\ \/ /\ pc' = "mat_except"
          /\ UNCHANGED <<data, items, k, trace>>
       \/ \E c \in MatContents :
          /\ data' = c
          /\ items' = MatVariables(c.ents)
          /\ k' = 1
          /\ trace' = trace \o << Out("file", <<>>), Out("title", <<>>) >>
          /\ pc' = "mat_iter"
    /\ UNCHANGED <<files, show_all, idx, handles, exitCode, rpath, rtag>>

\* for var_name, var_data in variables.items(): print ...
inspect_mat_variable ==
    /\ pc = "mat_iter"
    /\ k <= Len(items)
    /\ trace' = trace \o Section(items[k].n)
    /\ k' = k + 1
    /\ UNCHANGED <<files, show_all, idx, pc, data, items, handles, exitCode, rpath, rtag>>

\* the loop is exhausted: inspect_mat returns
inspect_mat_return ==
    /\ pc = "mat_iter"
    /\ k > Len(items)
    /\ BackToLoop
    /\ UNCHANGED <<files, show_all, handles, trace, exitCode, rpath, rtag>>

inspect_mat_except ==
    /\ pc = "mat_except"
    /\ ReportAndExit

(* ----------------------------------------------------------------------- *)
(* The program                                                             *)
(* ----------------------------------------------------------------------- *)
Next ==
    \/ main_exists \/ main_dispatch \/ main_return
    \/ inspect_npy_load \/ inspect_npy_print \/ inspect_npy_except
    \/ inspect_npz_open \/ inspect_npz_member \/ inspect_npz_exit \/ inspect_npz_except
    \/ inspect_netcdf_open \/ inspect_netcdf_variable \/ inspect_netcdf_exit \/ inspect_netcdf_except
    \/ inspect_hdf5_open \/ print_attrs \/ inspect_hdf5_exit \/ inspect_hdf5_except
    \/ inspect_mat_load \/ inspect_mat_variable \/ inspect_mat_return \/ inspect_mat_except

Spec == Init /\ [][Next]_vars

(* ----------------------------------------------------------------------- *)
(* Format resolution on its own                                            *)
(* ----------------------------------------------------------------------- *)
\* Paths are put together from a directory prefix, a stem, an extension and
\* an optional trailing separator.  c names the extension whatever its case,
\* s is its spelling; dot tells whether the name has a final dot at all.
ResDirs ==
    { <<>>, <<"d", "/">>, <<"x", ".", "h", "5", "/">>, <<"/", "D", "/", "e", ".", "n", "c", "/">> }

ResStems == { <<>>, <<"a">>, <<"a", ".", "m", "a", "t">>, <<".">> }

ResExt(c, dot, s) == [c |-> c, dot |-> dot, s |-> s]

ResExts ==
    { ResExt("npy", TRUE, <<"n", "p", "y">>), ResExt("npy", TRUE, <<"N", "P", "Y">>),
      ResExt("npy", TRUE, <<"N", "p", "y">>),
      ResExt("npz", TRUE, <<"n", "p", "z">>), ResExt("npz", TRUE, <<"n", "p", "Z">>),
      ResExt("nc", TRUE, <<"n", "c">>), ResExt("nc", TRUE, <<"N", "C">>),
      ResExt("netcdf", TRUE, <<"n", "e", "t", "c", "d", "f">>),
      ResExt("netcdf", TRUE, <<"N", "e", "t", "C", "D", "F">>),
      ResExt("h5", TRUE, <<"h", "5">>), ResExt("h5", TRUE, <<"H", "5">>),
      ResExt("hdf5", TRUE, <<"h", "d", "f", "5">>), ResExt("hdf5", TRUE, <<"H", "D", "f", "5">>),
      ResExt("mat", TRUE, <<"m", "a", "t">>), ResExt("mat", TRUE, <<"M", "A", "T">>),
      ResExt("txt", TRUE, <<"t", "x", "t">>), ResExt("np", TRUE, <<"n", "p">>),
      ResExt("npyz", TRUE, <<"n", "p", "y", "z">>), ResExt("hdf", TRUE, <<"h", "d", "f">>),
      ResExt("nc4", TRUE, <<"n", "c", "4">>), ResExt("py", TRUE, <<"p", "y">>),
      ResExt("", TRUE, <<>>), ResExt("", FALSE, <<>>) }

ResTails == { <<>>, <<"/">> }

\* a name is neither empty nor ".", and a stem with a dot in it always takes
\* an extension
ResParts ==
    { q \in [dir : ResDirs, stem : ResStems, ext : ResExts, tail : ResTails] :
        /\ q.stem # <<>> \/ q.ext.s # <<>>
        /\ ~q.ext.dot => RFind(q.stem, ".") = 0 }

PathOf(q) == q.dir \o q.stem \o (IF q.ext.dot THEN <<".">> \o q.ext.s ELSE <<>>) \o q.tail

InitResolve ==
    /\ rpath \in { PathOf(q) : q \in ResParts }
    /\ rtag = "idle"
    /\ files = <<>>
    /\ show_all = FALSE
    /\ idx = 1
    /\ pc = "resolve"
    /\ data = NoContent
    /\ items = <<>>
    /\ k = 0
    /\ handles = {}
    /\ trace = <<>>
    /\ exitCode = 0

\* suffix = path.suffix.lower() and the if/elif chain, for rpath
ResolveStep ==
    /\ pc = "resolve"
    /\ rtag = "idle"
    /\ rtag' = Resolve(rpath)
    /\ UNCHANGED <<files, show_all, idx, pc, data, items, k, handles, trace, exitCode, rpath>>

NextResolve == ResolveStep

SpecResolve == InitResolve /\ [][NextResolve]_vars

(* ----------------------------------------------------------------------- *)
(* Properties                                                              *)
(* ----------------------------------------------------------------------- *)
ExceptPcs == {"npy_except", "npz_except", "netcdf_except", "hdf5_except", "mat_except"}
IterPcs == {"npz_iter", "netcdf_iter", "hdf5_iter", "mat_iter"}
Terminated == pc \in {"done", "exited"}

Checked(f) == Ev(f, "fs", "exists", <<>>)
IsCall(e) == e.s = "call"
IsReading(e) == e.s = "err" /\ e.k = "reading"
IsSkip(e) == e.s = "err" /\ e.k \in {"missing", "unsupported"}
IsData(e) == e.s = "out" /\ e.k = "data"
IsDesc(e) == e.s = "out" /\ e.k = "desc"
Count(P(_)) == Cardinality({i \in DOMAIN trace : P(trace[i])})
EventsOf(f) == {i \in DOMAIN trace : trace[i].f = f}

\* the effects of file f, in order
EffectsOf(f) == SelectSeq(trace, LAMBDA e : e.f = f)

\* C1: a decode error is the last thing the process does: the "Error reading"
\* line of file idx ends the trace with the process exited, and from the raise
\* on nothing is checked, resolved, opened or reported for a later file.
C1_FailFast ==
    /\ \A i \in DOMAIN trace : IsReading(trace[i]) =>
          /\ i = Len(trace)
          /\ pc = "exited"
          /\ trace[i].f = idx
    /\ pc \in ExceptPcs \cup {"exited"} => \A i \in DOMAIN trace : trace[i].f <= idx

\* a decode error stopped the run with a file left over
C1_Witness ==
    /\ pc = "exited"
    /\ idx < Len(files)
    /\ IsReading(trace[Len(trace)])

\* C2: a missing or unsupported file leaves exactly one diagnostic on stderr,
\* no report and no open handle, does not end the process, and is followed
\* at once by the existence check of the next file; a run that returns from
\* main has checked every file, and only a decode error exits early.
C2_SkipContinues ==
    /\ \A i \in DOMAIN trace : IsSkip(trace[i]) =>
          /\ \A j \in EventsOf(trace[i].f) : trace[j].s \in {"fs", "call", "err"}
          /\ Cardinality({j \in EventsOf(trace[i].f) : trace[j].s = "err"}) = 1
          /\ IF i = Len(trace)
             THEN pc \in {"loop", "done"} /\ idx = trace[i].f + 1 /\ exitCode = 0
             ELSE trace[i + 1] = Checked(trace[i].f + 1)
    /\ pc = "done" => \A f \in 1..Len(files) : \E j \in DOMAIN trace : trace[j] = Checked(f)
    /\ pc = "exited" => Len(trace) > 0 /\ IsReading(trace[Len(trace)])

\* a missing first file, then a report for the second
C2_Witness ==
    \E i, j \in DOMAIN trace :
        /\ trace[i].s = "err" /\ trace[i].k = "missing" /\ trace[i].f = 1
        /\ trace[j].s = "out" /\ trace[j].f = 2

\* C3: once the process has ended, its status is 0 exactly when no traversal
\* raised, a status of 0 comes with every file checked, and a decode error
\* gives status 1 whatever was skipped before it.
C3_ExitStatus ==
    Terminated =>
        /\ exitCode = 0 <=> Count(IsReading) = 0
        /\ exitCode = 0 => \A f \in 1..Len(files) : \E j \in DOMAIN trace : trace[j] = Checked(f)
        /\ exitCode \in {0, 1}

\* a decode error after a skipped file
C3_Witness ==
    /\ pc = "exited"
    /\ exitCode = 1
    /\ Count(IsSkip) > 0

\* the table of the extensions, by name
TagOf(c) ==
    CASE c = "npy" -> "npy"
      [] c = "npz" -> "npz"
      [] c \in {"nc", "netcdf"} -> "netcdf"
      [] c \in {"h5", "hdf5"} -> "hdf5"
      [] c = "mat" -> "mat"
      [] OTHER -> "unsupported"

ExpectedTag(q) ==
    IF q.ext.dot /\ q.stem # <<>> /\ q.ext.s # <<>> THEN TagOf(q.ext.c) ELSE "unsupported"

\* C4: the tag found for a path is the table's entry for its final extension,
\* whatever the case of the extension, the directory prefix, the dots in the
\* stem or a trailing separator; a name without extension (no dot, a leading
\* dot only, a trailing dot) and any other extension are unsupported.
C4_Resolution ==
    rtag # "idle" =>
        /\ rtag \in {"npy", "npz", "netcdf", "hdf5", "mat", "unsupported"}
        /\ \A q \in ResParts : PathOf(q) = rpath => rtag = ExpectedTag(q)

\* a mixed-case extension under an absolute directory with a dotted name
C4_Witness ==
    /\ rtag = "hdf5"
    /\ rpath = <<"/", "D", "/", "e", ".", "n", "c", "/", "a", ".", "m", "a", "t", ".", "H", "D", "f", "5">>

\* the data section of trace[i] stands with the descriptor of its entity
DataWithDesc(i) ==
    \/ /\ i > 1
       /\ trace[i - 1] = [trace[i] EXCEPT !.k = "desc"]
    \/ /\ i > 2
       /\ trace[i - 1] = [trace[i] EXCEPT !.k = "title", !.n = <<>>]
       /\ trace[i - 2] = [trace[i] EXCEPT !.k = "desc"]

DescWithData(i) ==
    \/ /\ i + 1 <= Len(trace)
       /\ trace[i + 1] = [trace[i] EXCEPT !.k = "data"]
    \/ /\ i + 2 <= Len(trace)
       /\ trace[i + 1] = [trace[i] EXCEPT !.k = "title", !.n = <<>>]
       /\ trace[i + 2] = [trace[i] EXCEPT !.k = "data"]

\* entity j of the file being traversed is one the report shows data for
Reported(j) ==
    /\ data.ents[j].ds
    /\ pc = "mat_iter" => ~StartsWithDunder(data.ents[j].n)

DataCount(f, n) == Cardinality({i \in EventsOf(f) : IsData(trace[i]) /\ trace[i].n = n})
DescCount(f, n) ==
    Cardinality({i \in EventsOf(f) : trace[i].s = "out" /\ trace[i].k \in {"desc", "group"} /\ trace[i].n = n})

\* C5: without show_all no data section is ever printed.  With show_all
\* every data section stands with the descriptor of its entity, every
\* descriptor of a file that was traversed to its end has its data section,
\* and at the end of a traversal each entity of the file has exactly one data
\* section if it is an array, a variable or a dataset that is not a reserved
\* key, and none if it is a group or a reserved key.
C5_DataSections ==
    /\ ~show_all => Count(IsData) = 0
    /\ show_all =>
        /\ \A i \in DOMAIN trace : IsData(trace[i]) => DataWithDesc(i)
        /\ \A i \in DOMAIN trace : IsDesc(trace[i]) /\ trace[i].f < idx => DescWithData(i)
        /\ \A i \in DOMAIN trace :
              IsCall(trace[i]) /\ trace[i].k = "npy" /\ trace[i].f < idx => DataCount(trace[i].f, <<>>) = 1
        /\ pc \in IterPcs /\ k > Len(items) =>
              \A j \in 1..Len(data.ents) :
                  DataCount(idx, data.ents[j].n) = IF Reported(j) THEN 1 ELSE 0

\* an HDF5 file with a group and a dataset, traversed to its end with show_all
C5_Witness ==
    /\ show_all
    /\ pc = "hdf5_iter"
    /\ k > Len(items)
    /\ \E i, j \in 1..Len(items) : items[i].ds /\ ~items[j].ds

\* C6 as stated: when the traversal of a file has raised, nothing of that
\* file's report is on stdout.
C6_NoPartialReport ==
    pc \in ExceptPcs \cup {"exited"} =>
        \A i \in EventsOf(idx) : trace[i].s # "out"

\* the call that selected the traversal of file idx
TagAt(f) == trace[CHOOSE i \in EventsOf(f) : IsCall(trace[i])].k

\* C6 amended: a failure abandons the rest of the report only.  When the open
\* raised, nothing of the file is on stdout.  When the access to entity
\* failAt raised, the file line is on stdout, every earlier entity has its
\* descriptor and (with show_all, for an array) its data, the failing entity
\* has no data and has a descriptor only where the descriptor is printed
\* before the access (netcdf, hdf5), and no later entity has anything; the
\* same holds after the process has exited.
C6_AbandonsRest ==
    pc \in ExceptPcs \cup {"exited"} =>
        /\ data = NoContent => \A i \in EventsOf(idx) : trace[i].s # "out"
        /\ data # NoContent =>
            /\ data.fails
            /\ \E i \in EventsOf(idx) : trace[i] = Ev(idx, "out", "file", <<>>)
            /\ \A j \in 1..Len(data.ents) :
                LET n == data.ents[j].n
                IN  /\ j < data.failAt =>
                          /\ DescCount(idx, n) = 1
                          /\ DataCount(idx, n) = IF show_all /\ data.ents[j].ds THEN 1 ELSE 0
                    /\ j = data.failAt =>
                          /\ DescCount(idx, n) = IF TagAt(idx) \in {"netcdf", "hdf5"} THEN 1 ELSE 0
                          /\ DataCount(idx, n) = 0
                    /\ j > data.failAt =>
                          /\ DescCount(idx, n) = 0
                          /\ DataCount(idx, n) = 0

\* the second member of an archive raised after the first was printed
C6_Witness ==
    /\ pc = "npz_except"
    /\ data.fails
    /\ data.failAt = 2
    /\ DescCount(idx, data.ents[1].n) = 1

\* C7: the effects are in the order of the command line: the file numbers
\* along the trace never decrease, so the lines of two files never interleave
\* and a file is done with before the next is checked; no file is checked,
\* dispatched, opened or given a file line twice.
C7_Sequential ==
    /\ \A i \in 1..(Len(trace) - 1) : trace[i].f <= trace[i + 1].f
    /\ \A i \in DOMAIN trace : trace[i].f \in 1..idx /\ trace[i].f <= Len(files)
    /\ \A f \in 1..Len(files) :
          LET E == EffectsOf(f)
          IN  \A i \in DOMAIN E :
                  E[i].s \in {"fs", "call", "fd", "err"} \/ E[i].k = "file"
                      => \A j \in (i + 1)..Len(E) : E[j] # E[i]

\* two files reported one after the other, the run complete
C7_Witness ==
    /\ pc = "done"
    /\ Len(files) = 2
    /\ \E i, j \in DOMAIN trace : trace[i] = Ev(1, "out", "file", <<>>) /\ trace[j] = Ev(2, "out", "file", <<>>)

\* C8: at most one handle is open, and only that of the file being traversed.
\* For npz, netcdf and hdf5 the handle is closed when the traversal returns to
\* the loop and when it reaches its except clause, hence before the process
\* exits; an opened handle of a finished file has its close in the trace.
C8_ScopedHandles ==
    /\ Cardinality(handles) <= 1
    /\ handles \subseteq {idx}
    /\ pc \in {"loop", "dispatch", "done"} => handles = {}
    /\ pc \in {"npz_except", "netcdf_except", "hdf5_except"} => handles = {}
    /\ pc = "exited" /\ TagAt(idx) \in {"npz", "netcdf", "hdf5"} => handles = {}
    /\ \A i \in DOMAIN trace :
          /\ trace[i].s = "fd" /\ trace[i].k = "open"
          /\ trace[i].f < idx \/ pc \in {"npz_except", "netcdf_except", "hdf5_except"}
          => \E j \in DOMAIN trace : j > i /\ trace[j] = [trace[i] EXCEPT !.k = "close"]

\* an HDF5 traversal raised with its handle open and reached the except clause
C8_Witness ==
    /\ pc = "hdf5_except"
    /\ handles = {}
    /\ \E i \in DOMAIN trace : trace[i] = Ev(idx, "fd", "open", <<>>)

\* the descriptors printed so far for the file being traversed
IsCurDesc(e) == IsDesc(e) /\ e.f = idx
Rendered == SelectSeq(trace, IsCurDesc)

\* C9: the npz descriptors printed so far are the first members of the
\* archive in stored order.  The mat descriptors printed are keys of the
\* decoded dict, none starting with '__', none twice, in the dict's order,
\* and at the end of the loop every key not starting with '__' is among them.
C9_RenderOrder ==
    /\ pc = "npz_iter" =>
          /\ Len(Rendered) = k - 1
          /\ \A j \in 1..Len(Rendered) : Rendered[j].n = data.ents[j].n
    /\ pc = "mat_iter" =>
          /\ \A a \in 1..Len(Rendered) :
                /\ ~(Len(Rendered[a].n) >= 2 /\ Rendered[a].n[1] = "_" /\ Rendered[a].n[2] = "_")
                /\ \E j \in 1..Len(data.ents) : data.ents[j].n = Rendered[a].n
          /\ \A a, b \in 1..Len(Rendered) : a < b =>
                \E i, j \in 1..Len(data.ents) :
                    i < j /\ data.ents[i].n = Rendered[a].n /\ data.ents[j].n = Rendered[b].n
          /\ k > Len(items) =>
                \A j \in 1..Len(data.ents) :
                    ~(Len(data.ents[j].n) >= 2 /\ data.ents[j].n[1] = "_" /\ data.ents[j].n[2] = "_")
                        => \E a \in 1..Len(Rendered) : Rendered[a].n = data.ents[j].n

\* a dict with a reserved key and a key with one underscore, printed to its end
C9_Witness ==
    /\ pc = "mat_iter"
    /\ k > Len(items)
    /\ Len(data.ents) = 2
    /\ Len(Rendered) = 1
    /\ Rendered[1].n = <<"_", "a">>

\* C10: the effects of one file are one of three: the check and the "does
\* not exist" line and nothing else (no resolution, whatever the extension);
\* the check, the resolution to unsupported and the "Unsupported" line and
\* nothing else; or the check, the resolution to the tag of the path and the
\* effects of that one traversal.  The check is the first effect of a file.
C10_Outcome ==
    \A f \in 1..Len(files) :
        LET E == EffectsOf(f)
        IN  \/ E = <<>>
            \/ E = << Checked(f) >>
            \/ E = << Checked(f), Ev(f, "err", "missing", <<>>) >>
            \/ /\ Len(E) >= 2
               /\ E[1] = Checked(f)
               /\ E[2] = Ev(f, "call", Resolve(files[f]), <<>>)
               /\ IF E[2].k = "unsupported"
                  THEN Len(E) = 3 /\ E[3] = Ev(f, "err", "unsupported", <<>>)
                  ELSE \A j \in 3..Len(E) : E[j].s \in {"out", "fd"} \/ IsReading(E[j])

\* a missing file whose name has a supported extension
C10_Witness ==
    \E i \in DOMAIN trace :
        /\ trace[i].s = "err" /\ trace[i].k = "missing"
        /\ Resolve(files[trace[i].f]) = "npy"
        /\ Cardinality(EventsOf(trace[i].f)) = 2

====
